---- MODULE Spec2Model ----
(***************************************************************************)
(* Daily scoring and streak recalculation of the productivity tracker      *)
(* (backend/services/scoring.js and the routes that call it).              *)
(*                                                                         *)
(* Numbers.  Score components are kept as the integers the code stores     *)
(* (habit and task points are 100 * ratio, time points are net hours * 10);*)
(* the streak bonus and every weighted sum are kept in hundredths of a     *)
(* point, so that  habit*0.45 + task*0.45 + time*0.1  is  45*habit +       *)
(* 45*task + 10*time  hundredths.  On the inputs of this model the double  *)
(* arithmetic of the code yields the same comparisons with 60.             *)
(*                                                                         *)
(* Dates.  A calendar day is its number in a window that starts on         *)
(* 2023-12-30 (day 1); IsoDate gives the YYYY-MM-DD text the tables store, *)
(* which is what the SQL MAX(date) and ORDER BY date compare.              *)
(***************************************************************************)
EXTENDS Integers, FiniteSets, Sequences, TLC

\* ---------------------------------------------------------------- bounds
MaxDate == 3
MaxTasks == 1
MaxLogs == 1

Dates == 1..MaxDate
TaskIds == 1..MaxTasks
\* a start date handed to the reconciler may lie one day after the window
StartDates == 1..(MaxDate + 1)
\* minutes of one time log (15 h), and the weight of the one habit (1.0 as 100)
LogDurations == {900}
LogTypes == {"productive"}
HabitWeights == {100}
\* two texts that are not calendar dates: one that is not of the form
\* YYYY-MM-DD at all ("tomorrow"), and "2024-01-32", which has the form (as
\* day number it is the 34th day of the window, IsoDate gives <<2024, 1, 32>>)
NotADate == 0 - 1
NonCalendar == 34
MalformedDates == {NotADate, NonCalendar}
\* the source tables the metric calculators are applied to: up to
\* MaxMetricTasks tasks of day MetricTaskDate, and on the days up to
\* MetricLogDays productive logs of 15 h and distracting logs of 46 h in sum
MaxMetricTasks == 2
MetricTaskDate == 2
MetricLogDays == 2
MetricDistracting == 2760
\* the weights PUT /api/habits/:id sets (1.0 and 0.5)
EditWeights == {100, 50}
\* the request handlers that can be in progress at once
Procs == {1, 2}

\* ------------------------------------------------------------- constants
StreakThreshold == 60

\* tasks, completions, timelogs: the source tables (Tasks by id, HabitCompletions
\* of the one habit by date, the TimeLogs sums by date); scores, streaks: the
\* DailyScores and StreakData tables by date.  lastOp and frontier are history:
\* the last request served, and the latest date any request so far was for
\* (-1 once a request went back to an earlier date).
\* currentWeight is Habits.current_weight of the one habit.  procs is the
\* position and the local variables of each request handler in progress, and
\* snapshot the tables as they were when the requests in progress began.
VARIABLES tasks, completions, timelogs, scores, streaks, lastOp, frontier,
          currentWeight, procs, snapshot

vars == <<tasks, completions, timelogs, scores, streaks, lastOp, frontier,
          currentWeight, procs, snapshot>>

\* what the requests served in one piece leave alone
aux == <<currentWeight, procs, snapshot>>

\* ------------------------------------------------------------ date text
\* toISOString().slice(0, 10) of day d of the window, as <<year, month, day>>
IsoDate(d) == IF d <= 2 THEN <<2023, 12, 29 + d>> ELSE <<2024, 1, d - 2>>

\* comparison of two zero-padded YYYY-MM-DD texts, field by field
TextLess(a, b) ==
    \/ a[1] < b[1]
    \/ a[1] = b[1] /\ a[2] < b[2]
    \/ a[1] = b[1] /\ a[2] = b[2] /\ a[3] < b[3]

\* (variant: SELECT MIN(date))
MaxDateTextOldest(S) == CHOOSE d \in S : \A e \in S : ~TextLess(IsoDate(e), IsoDate(d))

\* SELECT MAX(date): the row whose date text is greatest (S is not empty)
MaxDateText(S) == CHOOSE d \in S : \A e \in S : ~TextLess(IsoDate(d), IsoDate(e))

\* Date.UTC of the text's fields is a number (of "2024-01-32" it is the
\* first of February), so toISOString and the loop's comparison work on it
Parses(d) == d # NotADate

\* (variant: the day itself is taken for the previous day)
PrevDateBroken(d) == d

\* setUTCDate(getUTCDate() - 1) and + 1 on the parsed date
PrevDate(d) == d - 1

NextDate(d) == d + 1

\* ---------------------------------------------------------------- rows
\* a DailyScores row as the schema's defaults leave it
DefaultScoreRow ==
    [habit |-> 0, task |-> 0, time |-> 0, bonus |-> 0, total |-> 0, rest |-> FALSE]

NoRet == [habit |-> 0, task |-> 0, time |-> 0, bonus |-> 0, total |-> 0,
          rest |-> FALSE, streak |-> 0]

Upsert(table, key, row) ==
    [k \in (DOMAIN table) \cup {key} |-> IF k = key THEN row ELSE table[k]]

Remove(table, key) == [k \in (DOMAIN table) \ {key} |-> table[k]]

\* SELECT current_streak_days FROM StreakData WHERE date = ?, 0 when no row
StreakOf(st, d) == IF d \in DOMAIN st THEN st[d] ELSE 0

\* ---------------------------------------------------- metric calculators
\* (variant: a date without tasks scores the full ratio)
calculateTaskScoreEmptyIsFull(tk, date) ==
    LET completed == Cardinality({i \in DOMAIN tk :
                         tk[i].target_date = date /\ tk[i].is_done})
        assigned == Cardinality({i \in DOMAIN tk :
                         tk[i].target_date = date /\ tk[i].is_assigned})
    IN IF assigned > 0 THEN (completed * 100) \div assigned
       ELSE IF completed > 0 THEN completed * 100
       ELSE 100

\* completed / assigned of the date's tasks, times 100
calculateTaskScore(tk, date) ==
    LET completed == Cardinality({i \in DOMAIN tk :
                         tk[i].target_date = date /\ tk[i].is_done})
        assigned == Cardinality({i \in DOMAIN tk :
                         tk[i].target_date = date /\ tk[i].is_assigned})
    IN IF assigned > 0 THEN (completed * 100) \div assigned
       ELSE IF completed > 0 THEN completed * 100
       ELSE 0

\* (variant: the sum uses the habit's current weight)
calculateHabitScoreCurrentWeight(comp, date) ==
    IF date \in DOMAIN comp THEN currentWeight ELSE 0

\* SUM(weight_at_completion) of the date's completions, times 100
calculateHabitScore(comp, date) ==
    IF date \in DOMAIN comp THEN comp[date] ELSE 0

\* (variant: a day's time score is not allowed below 0)
calculateTimeScoreClamped(tl, date) ==
    IF date \in DOMAIN tl /\ tl[date].productive >= tl[date].distracting
    THEN (tl[date].productive - tl[date].distracting) \div 6
    ELSE 0

\* (productive hours - distracting hours) * 10
calculateTimeScore(tl, date) ==
    IF date \in DOMAIN tl
    THEN (tl[date].productive - tl[date].distracting) \div 6
    ELSE 0

\* ------------------------------------------------------------ the bonus
\* Math.round(Math.log2(2 + s / 365) * 100), in hundredths: log2(2 + s/365)
\* rounds to 1.00 for s < 3, to 1.01 for s < 8, to 1.02 for s < 13
Log2Bonus(s) == IF s < 3 THEN 100 ELSE IF s < 8 THEN 101 ELSE IF s < 13 THEN 102 ELSE 103

BaseScore(habit, task, time) == 45 * habit + 45 * task + 10 * time

\* (variant: a base score of exactly 60 does not meet the threshold)
MeetsThresholdStrict(base) == base > StreakThreshold * 100

\* base_daily_score >= 60
MeetsThreshold(base) == base >= StreakThreshold * 100

\* (variant: a rest day resets the streak; a qualifying day starts it anew)
ComposerStreakStepRestResets(prevDayStreak, base, isRestDay) ==
    LET s == IF isRestDay THEN 0
             ELSE IF MeetsThreshold(base) THEN prevDayStreak + 1 ELSE 0
    IN [streak |-> s, bonus |-> IF s > 0 THEN Log2Bonus(s) ELSE 0]

ComposerStreakStepNoCarry(prevDayStreak, base, isRestDay) ==
    LET s == IF isRestDay THEN prevDayStreak
             ELSE IF MeetsThreshold(base) THEN 1 ELSE 0
    IN [streak |-> s, bonus |-> IF s > 0 THEN Log2Bonus(s) ELSE 0]

\* ------------------------------------------------------------- composer
\* steps 5 and 6 of recalculateDailyScore: the streak to store and the bonus
ComposerStreakStep(prevDayStreak, base, isRestDay) ==
    LET new_streak_days_for_storage ==
            IF isRestDay THEN prevDayStreak
            ELSE IF MeetsThreshold(base) THEN prevDayStreak + 1
            ELSE 0
        current_streak_days_for_bonus ==
            IF isRestDay THEN prevDayStreak
            ELSE IF MeetsThreshold(base) THEN prevDayStreak + 1
            ELSE 0
        streak_bonus_component ==
            IF current_streak_days_for_bonus > 0
            THEN Log2Bonus(current_streak_days_for_bonus) ELSE 0
    IN [streak |-> new_streak_days_for_storage, bonus |-> streak_bonus_component]

\* recalculateDailyScore(date) on the tables: the two upserts and the record
\* it returns
recalculateDailyScore(tk, comp, tl, sc, st, date) ==
    LET isRestDay == IF date \in DOMAIN sc THEN sc[date].rest ELSE FALSE
        habit_points == calculateHabitScore(comp, date)
        task_points == calculateTaskScore(tk, date)
        time_score_points == calculateTimeScore(tl, date)
        prevDayStreak == StreakOf(st, PrevDate(date))
        base_daily_score == BaseScore(habit_points, task_points, time_score_points)
        step == ComposerStreakStep(prevDayStreak, base_daily_score, isRestDay)
        scoreDataForDb ==
            [habit |-> habit_points, task |-> task_points,
             time |-> time_score_points, bonus |-> step.bonus,
             total |-> base_daily_score + step.bonus, rest |-> isRestDay]
    IN [scores |-> Upsert(sc, date, scoreDataForDb),
        streaks |-> Upsert(st, date, step.streak),
        ret |-> scoreDataForDb]


\* a streak step that counts a rest day as a day of the streak
ReconcilerStreakStepRestCounts(actualPrevDayStreak, base, isRestDay) ==
    LET newStreak ==
            IF isRestDay \/ MeetsThreshold(base) THEN actualPrevDayStreak + 1
            ELSE 0
    IN [streak |-> newStreak,
        bonus |-> IF newStreak > 0 THEN Log2Bonus(newStreak) ELSE 0]

\* (variant: the bonus is taken from the streak entering the day)
ReconcilerStreakStepEnteringBonus(actualPrevDayStreak, base, isRestDay) ==
    LET s == IF isRestDay THEN actualPrevDayStreak
             ELSE IF MeetsThreshold(base) THEN actualPrevDayStreak + 1 ELSE 0
    IN [streak |-> s,
        bonus |-> IF actualPrevDayStreak > 0 THEN Log2Bonus(actualPrevDayStreak) ELSE 0]

\* (variant: the threshold is exclusive in the reconciler)
ReconcilerStreakStepStrict(actualPrevDayStreak, base, isRestDay) ==
    LET s == IF isRestDay THEN actualPrevDayStreak
             ELSE IF base > StreakThreshold * 100 THEN actualPrevDayStreak + 1 ELSE 0
    IN [streak |-> s, bonus |-> IF s > 0 THEN Log2Bonus(s) ELSE 0]

\* ----------------------------------------------------------- reconciler
\* steps 3 and 5 of the loop body: the streak to store and the new bonus
ReconcilerStreakStep(actualPrevDayStreak, base, isRestDay) ==
    LET newStreakForCurrentDay_storage ==
            IF isRestDay THEN actualPrevDayStreak
            ELSE IF MeetsThreshold(base) THEN actualPrevDayStreak + 1
            ELSE 0
        streakUsedForBonusCalculation ==
            IF isRestDay THEN actualPrevDayStreak
            ELSE IF MeetsThreshold(base) THEN actualPrevDayStreak + 1
            ELSE 0
        newBonus ==
            IF streakUsedForBonusCalculation > 0
            THEN Log2Bonus(streakUsedForBonusCalculation) ELSE 0
    IN [streak |-> newStreakForCurrentDay_storage, bonus |-> newBonus]

\* (variant: DailyScores is updated whether or not the bonus changed)
ReconcileDayAlwaysUpdates(sc, st, d) ==
    LET base == BaseScore(sc[d].habit, sc[d].task, sc[d].time)
        step == ReconcilerStreakStep(StreakOf(st, PrevDate(d)), base, sc[d].rest)
    IN [scores |-> Upsert(sc, d, [sc[d] EXCEPT !.bonus = step.bonus,
                                              !.total = base + step.bonus]),
        streaks |-> Upsert(st, d, step.streak),
        scoreWrites |-> 1]

\* (variant: the update sets the bonus and leaves the total)
ReconcileDayBonusOnly(sc, st, d) ==
    LET base == BaseScore(sc[d].habit, sc[d].task, sc[d].time)
        step == ReconcilerStreakStep(StreakOf(st, PrevDate(d)), base, sc[d].rest)
        bonusChanged == step.bonus # sc[d].bonus
    IN [scores |-> IF bonusChanged
                   THEN Upsert(sc, d, [sc[d] EXCEPT !.bonus = step.bonus])
                   ELSE sc,
        streaks |-> Upsert(st, d, step.streak),
        scoreWrites |-> IF bonusChanged THEN 1 ELSE 0]

\* the body of the while loop for one date that has a DailyScores row
ReconcileDay(sc, st, d) ==
    LET dailyScoreEntry == sc[d]
        baseScoreForThisDay ==
            BaseScore(dailyScoreEntry.habit, dailyScoreEntry.task, dailyScoreEntry.time)
        oldBonus == dailyScoreEntry.bonus
        step == ReconcilerStreakStep(StreakOf(st, PrevDate(d)), baseScoreForThisDay,
                                     dailyScoreEntry.rest)
        bonusChanged == step.bonus # oldBonus
    IN [scores |-> IF bonusChanged
                   THEN Upsert(sc, d, [dailyScoreEntry EXCEPT
                            !.bonus = step.bonus,
                            !.total = baseScoreForThisDay + step.bonus])
                   ELSE sc,
        streaks |-> Upsert(st, d, step.streak),
        scoreWrites |-> IF bonusChanged THEN 1 ELSE 0]

\* (variant: the loop stores streak 0 for the missing date)
ReconcileMissingDayStreakOnly(tk, comp, tl, sc, st, d) ==
    [scores |-> sc, streaks |-> Upsert(st, d, 0), scoreWrites |-> 0, streakWrites |-> 1]

\* (variant: the loop runs the full composer for the missing date)
ReconcileMissingDayComposed(tk, comp, tl, sc, st, d) ==
    LET r == recalculateDailyScore(tk, comp, tl, sc, st, d)
    IN [scores |-> r.scores, streaks |-> r.streaks, scoreWrites |-> 1, streakWrites |-> 1]

\* what the loop does with a date that has no DailyScores row: warn and skip
ReconcileMissingDay(tk, comp, tl, sc, st, d) ==
    [scores |-> sc, streaks |-> st, scoreWrites |-> 0, streakWrites |-> 0]

\* (variant: the loop runs the composer on every date that has a row)
RECURSIVE ReconcileLoopRemeasures(_, _, _, _, _, _, _, _, _)
ReconcileLoopRemeasures(tk, comp, tl, sc, st, currentDate, stopDateLoop, sw, dw) ==
    IF currentDate > stopDateLoop
    THEN [scores |-> sc, streaks |-> st, streakWrites |-> sw, scoreWrites |-> dw]
    ELSE IF currentDate \notin DOMAIN sc
    THEN ReconcileLoopRemeasures(tk, comp, tl, sc, st, NextDate(currentDate),
                                 stopDateLoop, sw, dw)
    ELSE LET r == recalculateDailyScore(tk, comp, tl, sc, st, currentDate)
         IN ReconcileLoopRemeasures(tk, comp, tl, r.scores, r.streaks,
                                    NextDate(currentDate), stopDateLoop,
                                    sw + 1, dw + 1)

\* (variant: the loop stops at the first date whose bonus did not change)
RECURSIVE ReconcileLoopStopsEarly(_, _, _, _, _, _, _, _, _)
ReconcileLoopStopsEarly(tk, comp, tl, sc, st, currentDate, stopDateLoop, sw, dw) ==
    IF currentDate > stopDateLoop
    THEN [scores |-> sc, streaks |-> st, streakWrites |-> sw, scoreWrites |-> dw]
    ELSE IF currentDate \notin DOMAIN sc
    THEN ReconcileLoopStopsEarly(tk, comp, tl, sc, st, NextDate(currentDate),
                                 stopDateLoop, sw, dw)
    ELSE LET r == ReconcileDay(sc, st, currentDate)
         IN IF r.scoreWrites = 0
            THEN [scores |-> r.scores, streaks |-> r.streaks,
                  streakWrites |-> sw + 1, scoreWrites |-> dw]
            ELSE ReconcileLoopStopsEarly(tk, comp, tl, r.scores, r.streaks,
                                         NextDate(currentDate), stopDateLoop,
                                         sw + 1, dw + 1)

\* the while loop from currentDate to stopDateLoop, with the number of write
\* statements it issues on each table
RECURSIVE ReconcileLoop(_, _, _, _, _, _, _, _, _)
ReconcileLoop(tk, comp, tl, sc, st, currentDate, stopDateLoop, sw, dw) ==
    IF currentDate > stopDateLoop
    THEN [scores |-> sc, streaks |-> st, streakWrites |-> sw, scoreWrites |-> dw]
    ELSE IF currentDate \notin DOMAIN sc
    THEN LET m == ReconcileMissingDay(tk, comp, tl, sc, st, currentDate)
         IN ReconcileLoop(tk, comp, tl, m.scores, m.streaks, NextDate(currentDate),
                          stopDateLoop, sw + m.streakWrites, dw + m.scoreWrites)
    ELSE LET r == ReconcileDay(sc, st, currentDate)
         IN ReconcileLoop(tk, comp, tl, r.scores, r.streaks, NextDate(currentDate),
                          stopDateLoop, sw + 1, dw + r.scoreWrites)

\* recalculateStreaksForward(startDateToRecalculateFrom): nothing to do when
\* DailyScores is empty or the start lies after its last date
recalculateStreaksForward(tk, comp, tl, sc, st, start) ==
    IF DOMAIN sc = {}
    THEN [scores |-> sc, streaks |-> st, streakWrites |-> 0, scoreWrites |-> 0]
    ELSE LET lastDayInLoop == MaxDateText(DOMAIN sc)
         IN IF start > lastDayInLoop
            THEN [scores |-> sc, streaks |-> st, streakWrites |-> 0, scoreWrites |-> 0]
            ELSE ReconcileLoop(tk, comp, tl, sc, st, start, lastDayInLoop, 0, 0)

\* ---------------------------------------------------------- streak query
\* (variant: ORDER BY date ASC)
LatestStreakRowOldest(st) ==
    CHOOSE d \in DOMAIN st : \A e \in DOMAIN st : ~TextLess(IsoDate(e), IsoDate(d))

\* SELECT current_streak_days FROM StreakData ORDER BY date DESC LIMIT 1
LatestStreakRow(st) ==
    CHOOSE d \in DOMAIN st : \A e \in DOMAIN st : ~TextLess(IsoDate(d), IsoDate(e))

getCurrentStreak(st) == IF DOMAIN st = {} THEN 0 ELSE st[LatestStreakRow(st)]

\* ------------------------------------------------------------ the state
\* the last request: its name, the date it was for, the status it answered,
\* the record the composer returned to it (or the streak read), and the number
\* of write statements it issued on StreakData and on DailyScores
Op(name, date, status, ret, sw, dw) ==
    [op |-> name, date |-> date, status |-> status, ret |-> ret,
     streakWrites |-> sw, scoreWrites |-> dw]

RetOf(row) == [habit |-> row.habit, task |-> row.task, time |-> row.time,
               bonus |-> row.bonus, total |-> row.total, rest |-> row.rest,
               streak |-> 0]

Advance(date) == IF frontier >= 0 /\ date >= frontier THEN date ELSE -1

\* a request: its route, its date (for a task update the target_date of
\* the body, 0 when the body has none), its task id, the is_done of its body
\* its is_rest_day (or is_assigned) and the minutes of its time log
NoReq ==
    [kind |-> "none", date |-> 0, id |-> 0, done |-> "absent", flag |-> FALSE,
     minutes |-> 0]

\* a handler that serves no request: pc is its position, date the date it
\* composes, rest .. bonus the values its reads returned, cur and last the
\* loop variables of the reconciler, failedAt the position where a storage
\* statement failed, responded whether the response was sent, status its code
IdleProc ==
    [req |-> NoReq, pc |-> "idle", date |-> 0, rest |-> FALSE, habit |-> 0,
     task |-> 0, time |-> 0, prev |-> 0, bonus |-> 0, cur |-> 0, last |-> 0,
     failedAt |-> "none", responded |-> FALSE, status |-> 0]

\* the tables of a freshly initialised database (Habits holds the one habit)
EmptyDb ==
    [tasks |-> <<>>, completions |-> <<>>,
     timelogs |-> [d \in Dates |-> [productive |-> 0, distracting |-> 0]],
     scores |-> <<>>, streaks |-> <<>>, currentWeight |-> 100]

Init ==
    /\ tasks = EmptyDb.tasks
    /\ completions = EmptyDb.completions
    /\ timelogs = EmptyDb.timelogs
    /\ scores = EmptyDb.scores
    /\ streaks = EmptyDb.streaks
    /\ lastOp = Op("Init", 0, 0, NoRet, 0, 0)
    /\ frontier = 0
    /\ currentWeight = EmptyDb.currentWeight
    /\ procs = [p \in Procs |-> IdleProc]
    /\ snapshot = EmptyDb

\* ------------------------------------------------------------- requests
LogCap == MaxLogs * 900

\* the bodies of PUT /api/tasks/:id: one field each (a body with only a
\* description changes none of the three)
TaskUpdateBodies ==
    {[date |-> 0, done |-> n] : n \in {"absent", "true", "false"}}
        \cup {[date |-> d, done |-> "absent"] : d \in Dates}

\* POST /api/tasks: the row is inserted, no score is recomputed
TaskCreate(date, assigned) ==
    /\ DOMAIN tasks # TaskIds
    /\ LET id == CHOOSE i \in TaskIds \ DOMAIN tasks :
                     \A j \in TaskIds \ DOMAIN tasks : i <= j
       IN tasks' = Upsert(tasks, id, [target_date |-> date, is_assigned |-> assigned,
                                      is_done |-> FALSE])
    /\ lastOp' = Op("TaskCreate", date, 201, NoRet, 0, 0)
    /\ frontier' = Advance(date)
    /\ UNCHANGED <<completions, timelogs, scores, streaks>>
    /\ UNCHANGED aux

\* PUT /api/tasks/:id with a task that exists: update, compose the task's
\* (new) target date, reconcile from the day after
TaskUpdate(id, body) ==
    /\ id \in DOMAIN tasks
    /\ LET old == tasks[id]
           new == [target_date |-> IF body.date = 0 THEN old.target_date ELSE body.date,
                   is_assigned |-> old.is_assigned,
                   is_done |-> IF body.done = "absent" THEN old.is_done
                               ELSE body.done = "true"]
           tk == Upsert(tasks, id, new)
           taskDate == new.target_date
       IN \E c \in {recalculateDailyScore(tk, completions, timelogs, scores, streaks,
                                          taskDate)} :
          \E r \in {recalculateStreaksForward(tk, completions, timelogs, c.scores,
                                              c.streaks, NextDate(taskDate))} :
             /\ tasks' = tk
             /\ scores' = r.scores
             /\ streaks' = r.streaks
             /\ lastOp' = Op("TaskUpdate", taskDate, 200, RetOf(c.ret),
                             1 + r.streakWrites, 1 + r.scoreWrites)
             /\ frontier' = Advance(taskDate)
    /\ UNCHANGED <<completions, timelogs>>
    /\ UNCHANGED aux

\* PUT /api/tasks/:id with no such task: changes = 0, 404
TaskUpdateNotFound(id) ==
    /\ id \notin DOMAIN tasks
    /\ lastOp' = Op("TaskUpdate", 0, 404, NoRet, 0, 0)
    /\ UNCHANGED <<tasks, completions, timelogs, scores, streaks, frontier>>
    /\ UNCHANGED aux

\* DELETE /api/tasks/:id: the row is deleted, no score is recomputed
TaskDelete(id) ==
    /\ id \in DOMAIN tasks
    /\ tasks' = Remove(tasks, id)
    /\ lastOp' = Op("TaskDelete", tasks[id].target_date, 200, NoRet, 0, 0)
    /\ frontier' = Advance(tasks[id].target_date)
    /\ UNCHANGED <<completions, timelogs, scores, streaks>>
    /\ UNCHANGED aux

\* POST /api/habits/:id/complete: upsert the completion with the habit's
\* current weight, compose the date
HabitComplete(date, weight) ==
    /\ weight = currentWeight
    /\ LET comp == Upsert(completions, date, weight)
       IN \E c \in {recalculateDailyScore(tasks, comp, timelogs, scores, streaks, date)} :
             /\ completions' = comp
             /\ scores' = c.scores
             /\ streaks' = c.streaks
             /\ lastOp' = Op("HabitComplete", date, 201, RetOf(c.ret), 1, 1)
    /\ frontier' = Advance(date)
    /\ UNCHANGED <<tasks, timelogs>>
    /\ UNCHANGED aux

\* DELETE /api/habits/:id/complete?date=: delete the completion, compose the
\* date; the next-day computation then throws (Date.UTC() without arguments
\* is NaN and toISOString() of an invalid date is a RangeError), so the
\* handler answers 500 and the reconciler is not reached
HabitUncomplete(date) ==
    /\ date \in DOMAIN completions
    /\ LET comp == Remove(completions, date)
       IN \E c \in {recalculateDailyScore(tasks, comp, timelogs, scores, streaks, date)} :
             /\ completions' = comp
             /\ scores' = c.scores
             /\ streaks' = c.streaks
             /\ lastOp' = Op("HabitUncomplete", date, 500, RetOf(c.ret), 1, 1)
    /\ frontier' = Advance(date)
    /\ UNCHANGED <<tasks, timelogs>>
    /\ UNCHANGED aux

\* POST /api/timelogs: insert the log, compose the day it is logged for
TimeLogCreate(type, date, minutes) ==
    /\ timelogs[date][type] + minutes <= LogCap
    /\ LET tl == [timelogs EXCEPT ![date][type] = @ + minutes]
       IN \E c \in {recalculateDailyScore(tasks, completions, tl, scores, streaks, date)} :
             /\ timelogs' = tl
             /\ scores' = c.scores
             /\ streaks' = c.streaks
             /\ lastOp' = Op("TimeLogCreate", date, 201, RetOf(c.ret), 1, 1)
    /\ frontier' = Advance(date)
    /\ UNCHANGED <<tasks, completions>>
    /\ UNCHANGED aux

\* PUT /api/daily-status/:date: upsert the rest-day flag, compose the date
RestDayToggle(date, is_rest_day) ==
    /\ LET row == IF date \in DOMAIN scores THEN scores[date] ELSE DefaultScoreRow
           sc == Upsert(scores, date, [row EXCEPT !.rest = is_rest_day])
       IN \E c \in {recalculateDailyScore(tasks, completions, timelogs, sc, streaks,
                                          date)} :
             /\ scores' = c.scores
             /\ streaks' = c.streaks
             /\ lastOp' = Op("RestDayToggle", date, 200, RetOf(c.ret), 1, 2)
    /\ frontier' = Advance(date)
    /\ UNCHANGED <<tasks, completions, timelogs>>
    /\ UNCHANGED aux

\* PUT /api/daily-notes/:date: upsert the notes; a new row gets the defaults
NotesSave(date) ==
    /\ scores' = IF date \in DOMAIN scores THEN scores
                 ELSE Upsert(scores, date, DefaultScoreRow)
    /\ lastOp' = Op("NotesSave", date, 200, NoRet, 0, 1)
    /\ frontier' = Advance(date)
    /\ UNCHANGED <<tasks, completions, timelogs, streaks>>
    /\ UNCHANGED aux

\* PUT /api/habits/:id with a current_weight: the Habits row is updated,
\* no completion and no score is touched
HabitEdit(weight) ==
    /\ currentWeight' = weight
    /\ lastOp' = Op("HabitEdit", 0, 200, NoRet, 0, 0)
    /\ UNCHANGED <<tasks, completions, timelogs, scores, streaks, frontier, procs,
                   snapshot>>

\* (variant: the read runs the composer whether or not a row is stored)
GetDailyScoreAlwaysComposes(date) ==
    /\ \E c \in {recalculateDailyScore(tasks, completions, timelogs, scores,
                                       streaks, date)} :
          /\ scores' = c.scores
          /\ streaks' = c.streaks
          /\ lastOp' = Op("GetDailyScore", date, 200, RetOf(c.ret), 1, 1)
    /\ frontier' = Advance(date)
    /\ UNCHANGED <<tasks, completions, timelogs>>
    /\ UNCHANGED aux

\* GET /api/daily-score/:date: the stored row when there is one, else the
\* record the composer returns
GetDailyScore(date) ==
    /\ IF date \in DOMAIN scores
       THEN /\ lastOp' = Op("GetDailyScore", date, 200, RetOf(scores[date]), 0, 0)
            /\ UNCHANGED <<scores, streaks>>
       ELSE \E c \in {recalculateDailyScore(tasks, completions, timelogs, scores,
                                             streaks, date)} :
               /\ scores' = c.scores
               /\ streaks' = c.streaks
               /\ lastOp' = Op("GetDailyScore", date, 200, RetOf(c.ret), 1, 1)
    /\ frontier' = Advance(date)
    /\ UNCHANGED <<tasks, completions, timelogs>>
    /\ UNCHANGED aux

\* GET /api/streak
GetStreak ==
    /\ lastOp' = Op("GetStreak", 0, 200,
                    [NoRet EXCEPT !.streak = getCurrentStreak(streaks)], 0, 0)
    /\ UNCHANGED <<tasks, completions, timelogs, scores, streaks, frontier>>
    /\ UNCHANGED aux

\* a call of the exported recalculateDailyScore(date)
ComposeCall(date) ==
    /\ \E c \in {recalculateDailyScore(tasks, completions, timelogs, scores, streaks,
                                       date)} :
          /\ scores' = c.scores
          /\ streaks' = c.streaks
          /\ lastOp' = Op("Compose", date, 200, RetOf(c.ret), 1, 1)
    /\ frontier' = Advance(date)
    /\ UNCHANGED <<tasks, completions, timelogs>>
    /\ UNCHANGED aux

\* a call of the exported recalculateStreaksForward(startDate)
ReconcileCall(start) ==
    /\ \E r \in {recalculateStreaksForward(tasks, completions, timelogs, scores,
                                           streaks, start)} :
          /\ scores' = r.scores
          /\ streaks' = r.streaks
          /\ lastOp' = Op("Reconcile", start, 200, NoRet, r.streakWrites, r.scoreWrites)
    /\ frontier' = -1
    /\ UNCHANGED <<tasks, completions, timelogs>>
    /\ UNCHANGED aux

\* ------------------------------------------- requests served in one piece
\* the tables, as one record
Db ==
    [tasks |-> tasks, completions |-> completions, timelogs |-> timelogs,
     scores |-> scores, streaks |-> streaks, currentWeight |-> currentWeight]

\* recalculateDailyScore(date) on the record of tables
ComposeDb(db, date) ==
    LET c == recalculateDailyScore(db.tasks, db.completions, db.timelogs, db.scores,
                                   db.streaks, date)
    IN [db EXCEPT !.scores = c.scores, !.streaks = c.streaks]

\* recalculateStreaksForward(start) on the record of tables
ReconcileDb(db, start) ==
    LET r == recalculateStreaksForward(db.tasks, db.completions, db.timelogs, db.scores,
                                       db.streaks, start)
    IN [db EXCEPT !.scores = r.scores, !.streaks = r.streaks]

\* the task row PUT /api/tasks/:id leaves
UpdatedTask(old, r) ==
    [target_date |-> IF r.date = 0 THEN old.target_date ELSE r.date,
     is_assigned |-> old.is_assigned,
     is_done |-> IF r.done = "absent" THEN old.is_done ELSE r.done = "true"]

\* the id POST /api/tasks gives the new row
NewTaskId(tk) ==
    CHOOSE i \in TaskIds \ DOMAIN tk : \A j \in TaskIds \ DOMAIN tk : i <= j

\* the tables a request leaves when no other request runs and no storage
\* statement fails
Serve(r, db) ==
    CASE r.kind = "HabitComplete" ->
             ComposeDb([db EXCEPT !.completions = Upsert(@, r.date, db.currentWeight)],
                       r.date)
      [] r.kind = "HabitUncomplete" ->
             IF r.date \in DOMAIN db.completions
             THEN ComposeDb([db EXCEPT !.completions = Remove(@, r.date)], r.date)
             ELSE db
      [] r.kind = "TimeLogCreate" ->
             ComposeDb([db EXCEPT !.timelogs[r.date].productive = @ + r.minutes], r.date)
      [] r.kind = "RestDayToggle" ->
             LET row == IF r.date \in DOMAIN db.scores THEN db.scores[r.date]
                        ELSE DefaultScoreRow
             IN ComposeDb([db EXCEPT !.scores = Upsert(@, r.date,
                                                       [row EXCEPT !.rest = r.flag])],
                          r.date)
      [] r.kind = "TaskCreate" ->
             IF DOMAIN db.tasks = TaskIds THEN db
             ELSE [db EXCEPT !.tasks = Upsert(@, NewTaskId(db.tasks),
                                 [target_date |-> r.date, is_assigned |-> r.flag,
                                  is_done |-> FALSE])]
      [] r.kind = "TaskUpdate" ->
             IF r.id \in DOMAIN db.tasks
             THEN LET new == UpdatedTask(db.tasks[r.id], r)
                  IN ReconcileDb(ComposeDb([db EXCEPT !.tasks = Upsert(@, r.id, new)],
                                           new.target_date),
                                 NextDate(new.target_date))
             ELSE db
      [] r.kind = "Compose" -> ComposeDb(db, r.date)
      [] r.kind = "Reconcile" -> ReconcileDb(db, r.date)
      [] OTHER -> db

\* ---------------------------------------------- requests served in steps
\* Each storage statement a handler awaits is one step; between two steps of
\* one handler the steps of another may run.  (The three metric queries of
\* Promise.all are one step, and so are a route's own statements.)
InFlight(proc) == proc.pc \notin {"idle", "done"}

Quiescent == \A q \in Procs : ~InFlight(procs[q])

\* the storage statements, by the position that awaits them
StorageSteps == {"m0", "c1", "c2", "c3", "c4", "c5", "r0", "r1", "r2", "r3", "r4"}

\* a handler that has left the recalculation: its reads are forgotten
Leave(proc, status) ==
    [proc EXCEPT !.pc = "respond", !.status = status, !.rest = FALSE, !.habit = 0,
                 !.task = 0, !.time = 0, !.prev = 0, !.bonus = 0]

\* the response a route sends after its composer call returned
StatusAfterCompose(kind) ==
    CASE kind \in {"HabitComplete", "TimeLogCreate"} -> 201
      [] kind = "HabitUncomplete" -> 500
      [] OTHER -> 200

\* the first position of a request: a direct call of the composer or of the
\* reconciler starts inside it, a route starts with its own statement
FirstPc(r) ==
    CASE r.kind = "Compose" -> "c1"
      [] r.kind = "Reconcile" -> "r0"
      [] OTHER -> "m0"

\* a request arrives.  A request that arrives while no other is in progress
\* starts a new batch: the tables are remembered and the handlers of the
\* batch before are forgotten.
Begin(p, r) ==
    /\ IF Quiescent
       THEN /\ snapshot' = Db
            /\ procs' = [q \in Procs |->
                            IF q = p
                            THEN [IdleProc EXCEPT !.req = r, !.pc = FirstPc(r),
                                                  !.date = r.date, !.cur = r.date]
                            ELSE IdleProc]
       ELSE /\ procs[p].pc = "idle"
            /\ snapshot' = snapshot
            /\ procs' = [procs EXCEPT ![p] =
                            [IdleProc EXCEPT !.req = r, !.pc = FirstPc(r),
                                             !.date = r.date, !.cur = r.date]]
    /\ r.kind = "TimeLogCreate" =>
           timelogs[r.date].productive + r.minutes
             + Cardinality({q \in Procs : /\ procs[q].pc = "m0"
                                          /\ procs[q].req.kind = "TimeLogCreate"
                                          /\ procs[q].req.date = r.date}) * r.minutes
             <= LogCap
    /\ r.kind = "TaskCreate" =>
           Cardinality(DOMAIN tasks)
             + Cardinality({q \in Procs : /\ procs[q].pc = "m0"
                                          /\ procs[q].req.kind = "TaskCreate"})
             < MaxTasks
    /\ frontier' = -1
    /\ UNCHANGED <<tasks, completions, timelogs, scores, streaks, lastOp, currentWeight>>

\* the route's own statement: the insert, update or delete of its source row
Mutate(p) ==
    LET proc == procs[p]
        r == proc.req
    IN /\ proc.pc = "m0"
       /\ CASE r.kind = "HabitComplete" ->
                  /\ completions' = Upsert(completions, r.date, currentWeight)
                  /\ procs' = [procs EXCEPT ![p].pc = "c1"]
                  /\ UNCHANGED <<tasks, timelogs, scores>>
            [] r.kind = "HabitUncomplete" ->
                  /\ completions' = Remove(completions, r.date)
                  /\ procs' = [procs EXCEPT ![p] =
                                  IF r.date \in DOMAIN completions
                                  THEN [proc EXCEPT !.pc = "c1"]
                                  ELSE Leave(proc, 404)]
                  /\ UNCHANGED <<tasks, timelogs, scores>>
            [] r.kind = "TimeLogCreate" ->
                  /\ timelogs' = [timelogs EXCEPT ![r.date].productive = @ + r.minutes]
                  /\ procs' = [procs EXCEPT ![p].pc = "c1"]
                  /\ UNCHANGED <<tasks, completions, scores>>
            [] r.kind = "RestDayToggle" ->
                  /\ scores' = Upsert(scores, r.date,
                                      [(IF r.date \in DOMAIN scores THEN scores[r.date]
                                        ELSE DefaultScoreRow) EXCEPT !.rest = r.flag])
                  /\ procs' = [procs EXCEPT ![p].pc = "c1"]
                  /\ UNCHANGED <<tasks, completions, timelogs>>
            [] r.kind = "TaskCreate" ->
                  /\ tasks' = Serve(r, Db).tasks
                  /\ procs' = [procs EXCEPT ![p] = Leave(proc, 201)]
                  /\ UNCHANGED <<completions, timelogs, scores>>
            [] r.kind = "TaskUpdate" ->
                  IF r.id \in DOMAIN tasks
                  THEN LET new == UpdatedTask(tasks[r.id], r)
                       IN /\ tasks' = Upsert(tasks, r.id, new)
                          /\ procs' = [procs EXCEPT ![p] =
                                          [proc EXCEPT !.pc = "c1",
                                                       !.date = new.target_date]]
                          /\ UNCHANGED <<completions, timelogs, scores>>
                  ELSE /\ procs' = [procs EXCEPT ![p] = Leave(proc, 404)]
                       /\ UNCHANGED <<tasks, completions, timelogs, scores>>
       /\ UNCHANGED <<streaks, lastOp, frontier, currentWeight, snapshot>>

\* composer step 1: the date's rest-day flag
ComposeReadRest(p) ==
    /\ procs[p].pc = "c1"
    /\ procs' = [procs EXCEPT ![p].pc = "c2",
                              ![p].rest = IF procs[p].date \in DOMAIN scores
                                          THEN scores[procs[p].date].rest ELSE FALSE]
    /\ UNCHANGED <<tasks, completions, timelogs, scores, streaks, lastOp, frontier,
                   currentWeight, snapshot>>

\* composer step 2: the three metric calculators
ComposeReadMetrics(p) ==
    /\ procs[p].pc = "c2"
    /\ procs' = [procs EXCEPT ![p].pc = "c3",
                              ![p].habit = calculateHabitScore(completions, procs[p].date),
                              ![p].task = calculateTaskScore(tasks, procs[p].date),
                              ![p].time = calculateTimeScore(timelogs, procs[p].date)]
    /\ UNCHANGED <<tasks, completions, timelogs, scores, streaks, lastOp, frontier,
                   currentWeight, snapshot>>

\* composer step 3: the previous day's streak; toISOString throws on a date
\* made of fields that are not numbers, before the read
ComposeReadPrev(p) ==
    /\ procs[p].pc = "c3"
    /\ procs' = [procs EXCEPT ![p] =
                    IF Parses(procs[p].date)
                    THEN [procs[p] EXCEPT !.pc = "c4",
                                          !.prev = StreakOf(streaks,
                                                            PrevDate(procs[p].date))]
                    ELSE Leave(procs[p], 500)]
    /\ UNCHANGED <<tasks, completions, timelogs, scores, streaks, lastOp, frontier,
                   currentWeight, snapshot>>

\* (variant: the composed row is never a rest day)
ComposedRowClearsRest(proc) ==
    LET base_daily_score == BaseScore(proc.habit, proc.task, proc.time)
        step == ComposerStreakStep(proc.prev, base_daily_score, FALSE)
    IN [row |-> [habit |-> proc.habit, task |-> proc.task, time |-> proc.time,
                 bonus |-> step.bonus, total |-> base_daily_score + step.bonus,
                 rest |-> FALSE],
        streak |-> step.streak]

\* what steps 4 to 8 of the composer make of the values read
ComposedRow(proc) ==
    LET base_daily_score == BaseScore(proc.habit, proc.task, proc.time)
        step == ComposerStreakStep(proc.prev, base_daily_score, proc.rest)
    IN [row |-> [habit |-> proc.habit, task |-> proc.task, time |-> proc.time,
                 bonus |-> step.bonus, total |-> base_daily_score + step.bonus,
                 rest |-> proc.rest],
        streak |-> step.streak]

\* composer step 9: the upsert into DailyScores
ComposeWriteScore(p) ==
    /\ procs[p].pc = "c4"
    /\ scores' = Upsert(scores, procs[p].date, ComposedRow(procs[p]).row)
    /\ procs' = [procs EXCEPT ![p].pc = "c5"]
    /\ UNCHANGED <<tasks, completions, timelogs, streaks, lastOp, frontier,
                   currentWeight, snapshot>>

\* (variant: the composer stores its streak for the next date as well)
ComposeWriteStreakNextDay(p) ==
    LET proc == procs[p]
    IN /\ proc.pc = "c5"
       /\ streaks' = Upsert(Upsert(streaks, proc.date, ComposedRow(proc).streak),
                            NextDate(proc.date), ComposedRow(proc).streak)
       /\ procs' = [procs EXCEPT ![p] =
                       IF proc.req.kind = "TaskUpdate"
                       THEN [Leave(proc, 0) EXCEPT !.pc = "r0",
                                                   !.cur = NextDate(proc.date)]
                       ELSE Leave(proc, StatusAfterCompose(proc.req.kind))]
       /\ UNCHANGED <<tasks, completions, timelogs, scores, lastOp, frontier,
                      currentWeight, snapshot>>

\* composer step 10: the upsert into StreakData; the composer returns, and
\* the task update route goes on to the reconciler from the next day
ComposeWriteStreak(p) ==
    LET proc == procs[p]
    IN /\ proc.pc = "c5"
       /\ streaks' = Upsert(streaks, proc.date, ComposedRow(proc).streak)
       /\ procs' = [procs EXCEPT ![p] =
                       IF proc.req.kind = "TaskUpdate"
                       THEN [Leave(proc, 0) EXCEPT !.pc = "r0",
                                                   !.cur = NextDate(proc.date)]
                       ELSE Leave(proc, StatusAfterCompose(proc.req.kind))]
       /\ UNCHANGED <<tasks, completions, timelogs, scores, lastOp, frontier,
                      currentWeight, snapshot>>


\* a loop that stays on a date that has no DailyScores row
NextInLoopStaysOnGap(proc) ==
    IF proc.pc = "r1" THEN proc
    ELSE IF NextDate(proc.cur) > proc.last THEN Leave(proc, 200)
    ELSE [Leave(proc, 0) EXCEPT !.pc = "r1", !.cur = NextDate(proc.cur)]

\* (variant: the loop ends at the first date whose bonus came out unchanged)
NextInLoopStopsUnchanged(proc) ==
    IF NextDate(proc.cur) > proc.last \/ proc.pc = "r3"
    THEN Leave(proc, 200)
    ELSE [Leave(proc, 0) EXCEPT !.pc = "r1", !.cur = NextDate(proc.cur)]

\* the reconciler moves on to the next date, or returns after the last one
NextInLoop(proc) ==
    IF NextDate(proc.cur) > proc.last
    THEN Leave(proc, 200)
    ELSE [Leave(proc, 0) EXCEPT !.pc = "r1", !.cur = NextDate(proc.cur)]

\* reconciler: SELECT MAX(date) FROM DailyScores, and the two early returns;
\* with a start that does not parse no comparison holds, the loop's included
ReconcileReadLast(p) ==
    LET proc == procs[p]
    IN /\ proc.pc = "r0"
       /\ procs' = [procs EXCEPT ![p] =
                       IF DOMAIN scores = {} THEN Leave(proc, 200)
                       ELSE IF ~Parses(proc.cur) THEN Leave(proc, 200)
                       ELSE IF proc.cur > MaxDateText(DOMAIN scores) THEN Leave(proc, 200)
                       ELSE [proc EXCEPT !.pc = "r1",
                                         !.last = MaxDateText(DOMAIN scores)]]
       /\ UNCHANGED <<tasks, completions, timelogs, scores, streaks, lastOp, frontier,
                      currentWeight, snapshot>>

\* loop step 1: the DailyScores row of the current date; no row, next date
ReconcileReadEntry(p) ==
    LET proc == procs[p]
    IN /\ proc.pc = "r1"
       /\ procs' = [procs EXCEPT ![p] =
                       IF proc.cur \notin DOMAIN scores THEN NextInLoop(proc)
                       ELSE [proc EXCEPT !.pc = "r2",
                                         !.habit = scores[proc.cur].habit,
                                         !.task = scores[proc.cur].task,
                                         !.time = scores[proc.cur].time,
                                         !.bonus = scores[proc.cur].bonus,
                                         !.rest = scores[proc.cur].rest]]
       /\ UNCHANGED <<tasks, completions, timelogs, scores, streaks, lastOp, frontier,
                      currentWeight, snapshot>>

\* loop step 2: the streak of the day before the current date
ReconcileReadPrev(p) ==
    /\ procs[p].pc = "r2"
    /\ procs' = [procs EXCEPT ![p].pc = "r3",
                              ![p].prev = StreakOf(streaks, PrevDate(procs[p].cur))]
    /\ UNCHANGED <<tasks, completions, timelogs, scores, streaks, lastOp, frontier,
                   currentWeight, snapshot>>

\* what steps 3 and 5 of the loop make of the values read
ReconciledStep(proc) ==
    ReconcilerStreakStep(proc.prev, BaseScore(proc.habit, proc.task, proc.time),
                         proc.rest)

\* loop step 4: the upsert into StreakData
ReconcileWriteStreak(p) ==
    LET proc == procs[p]
    IN /\ proc.pc = "r3"
       /\ streaks' = Upsert(streaks, proc.cur, ReconciledStep(proc).streak)
       /\ procs' = [procs EXCEPT ![p] =
                       IF ReconciledStep(proc).bonus # proc.bonus
                       THEN [proc EXCEPT !.pc = "r4"]
                       ELSE NextInLoop(proc)]
       /\ UNCHANGED <<tasks, completions, timelogs, scores, lastOp, frontier,
                      currentWeight, snapshot>>

\* loop step 6: UPDATE DailyScores SET bonus, total WHERE date = current date
ReconcileWriteScore(p) ==
    LET proc == procs[p]
        newBonus == ReconciledStep(proc).bonus
    IN /\ proc.pc = "r4"
       /\ scores' = IF proc.cur \in DOMAIN scores
                    THEN [scores EXCEPT ![proc.cur] =
                            [@ EXCEPT !.bonus = newBonus,
                                      !.total = BaseScore(proc.habit, proc.task,
                                                          proc.time) + newBonus]]
                    ELSE scores
       /\ procs' = [procs EXCEPT ![p] = NextInLoop(proc)]
       /\ UNCHANGED <<tasks, completions, timelogs, streaks, lastOp, frontier,
                      currentWeight, snapshot>>

\* the position at which a handler sends its response
RespondsEarly(pc) == pc \in {"respond", "c1"}

RespondsAt(pc) == pc = "respond"

\* the response is sent (a direct call returns to its caller)
Respond(p) ==
    /\ RespondsAt(procs[p].pc)
    /\ ~procs[p].responded
    /\ procs' = [procs EXCEPT ![p].responded = TRUE,
                              ![p].pc = IF @ = "respond" THEN "done" ELSE @]
    /\ UNCHANGED <<tasks, completions, timelogs, scores, streaks, lastOp, frontier,
                   currentWeight, snapshot>>

\* a reconciler that would log a rejected statement and go on with the next date
FailSkipsDate(p) ==
    LET proc == procs[p]
    IN /\ proc.pc \in StorageSteps
       /\ procs' = [procs EXCEPT ![p] =
                       IF proc.pc \in {"r1", "r2", "r3", "r4"}
                       THEN [NextInLoop(proc) EXCEPT !.failedAt = proc.pc]
                       ELSE [Leave(proc, 500) EXCEPT !.failedAt = proc.pc]]
       /\ UNCHANGED <<tasks, completions, timelogs, scores, streaks, lastOp, frontier,
                      currentWeight, snapshot>>

\* the storage statement a handler awaits is rejected: the composer and the
\* reconciler throw, a route answers 500, and the task update route swallows
\* what the reconciler threw and answers 200
Fail(p) ==
    LET proc == procs[p]
    IN /\ proc.pc \in StorageSteps
       /\ procs' = [procs EXCEPT ![p] =
                       [Leave(proc, IF proc.req.kind = "TaskUpdate"
                                       /\ proc.pc \in {"r0", "r1", "r2", "r3", "r4"}
                                    THEN 200 ELSE 500)
                          EXCEPT !.failedAt = proc.pc]]
       /\ UNCHANGED <<tasks, completions, timelogs, scores, streaks, lastOp, frontier,
                      currentWeight, snapshot>>

\* ------------------------------------------------------- specifications
\* the scoring engine called directly, with the habit, time-log, rest-day,
\* notes and streak routes
Next ==
    \/ \E d \in Dates, w \in HabitWeights : HabitComplete(d, w)
    \/ \E d \in Dates : HabitUncomplete(d)
    \/ \E t \in LogTypes, d \in Dates, m \in LogDurations : TimeLogCreate(t, d, m)
    \/ \E d \in Dates, f \in BOOLEAN : RestDayToggle(d, f)
    \/ \E d \in Dates : NotesSave(d)
    \/ GetStreak
    \/ \E d \in Dates : ComposeCall(d)
    \/ \E s \in StartDates : ReconcileCall(s)

Spec == Init /\ [][Next]_vars

\* the task routes, with the habit and time-log routes
NextTasks ==
    \/ \E d \in Dates, a \in BOOLEAN : TaskCreate(d, a)
    \/ \E i \in TaskIds, b \in TaskUpdateBodies : TaskUpdate(i, b)
    \/ \E i \in TaskIds : TaskUpdateNotFound(i)
    \/ \E i \in TaskIds : TaskDelete(i)
    \/ \E d \in Dates, w \in HabitWeights : HabitComplete(d, w)
    \/ \E d \in Dates : HabitUncomplete(d)
    \/ \E t \in LogTypes, d \in Dates, m \in LogDurations : TimeLogCreate(t, d, m)

SpecTasks == Init /\ [][NextTasks]_vars

\* the read routes and the habit's weight edit, with the routes that give
\* them something to read
NextReads ==
    \/ \E d \in Dates, w \in EditWeights : HabitComplete(d, w)
    \/ \E w \in EditWeights : HabitEdit(w)
    \/ \E t \in LogTypes, d \in Dates, m \in LogDurations : TimeLogCreate(t, d, m)
    \/ \E d \in Dates : NotesSave(d)
    \/ \E d \in Dates : GetDailyScore(d)
    \/ \E d \in Dates : ComposeCall(d)

SpecReads == Init /\ [][NextReads]_vars

\* the requests served in steps
RouteRequests ==
    {[NoReq EXCEPT !.kind = k, !.date = d] :
         k \in {"HabitComplete", "HabitUncomplete"}, d \in Dates}
      \cup {[NoReq EXCEPT !.kind = "TimeLogCreate", !.date = d, !.minutes = m] :
               d \in Dates, m \in LogDurations}
      \cup {[NoReq EXCEPT !.kind = "RestDayToggle", !.date = d, !.flag = f] :
               d \in Dates, f \in BOOLEAN}
      \cup {[NoReq EXCEPT !.kind = "TaskCreate", !.date = d, !.flag = TRUE] : d \in Dates}
      \cup {[NoReq EXCEPT !.kind = "TaskUpdate", !.id = i, !.date = b.date,
                          !.done = b.done] : i \in TaskIds, b \in TaskUpdateBodies}

EngineRequests ==
    {[NoReq EXCEPT !.kind = "Compose", !.date = d] : d \in Dates}
      \cup {[NoReq EXCEPT !.kind = "Reconcile", !.date = d] : d \in StartDates}

\* the requests of the specification with failures
FaultRequests ==
    {r \in RouteRequests :
        r.kind \in {"HabitComplete", "TimeLogCreate", "TaskCreate", "TaskUpdate"}}
      \cup EngineRequests

\* one handler at a time, whose storage statements may fail; after a failure
\* no further request is served
NextFaults ==
    \/ \E r \in FaultRequests : procs[1].failedAt = "none" /\ Begin(1, r)
    \/ Mutate(1)
    \/ ComposeReadRest(1)
    \/ ComposeReadMetrics(1)
    \/ ComposeReadPrev(1)
    \/ ComposeWriteScore(1)
    \/ ComposeWriteStreak(1)
    \/ ReconcileReadLast(1)
    \/ ReconcileReadEntry(1)
    \/ ReconcileReadPrev(1)
    \/ ReconcileWriteStreak(1)
    \/ ReconcileWriteScore(1)
    \/ Respond(1)
    \/ Fail(1)

SpecFaults == Init /\ [][NextFaults]_vars

\* the requests of the specification with two handlers: handler 1 serves the
\* habit and time-log routes, handler 2 the task routes
ConcurrentRequests(p) ==
    IF p = 1
    THEN {r \in RouteRequests : \/ r.kind = "HabitComplete"
                                 \/ (r.kind = "TimeLogCreate" /\ r.date >= 2)}
    ELSE {r \in RouteRequests : \/ (r.kind = "TaskCreate" /\ r.date = 1)
                                 \/ (r.kind = "TaskUpdate" /\ r.date = 0
                                                          /\ r.done # "absent")}

\* two handlers whose steps interleave
NextConcurrent ==
    \/ \E p \in Procs : \E r \in ConcurrentRequests(p) : Begin(p, r)
    \/ \E p \in Procs : Mutate(p)
    \/ \E p \in Procs : ComposeReadRest(p)
    \/ \E p \in Procs : ComposeReadMetrics(p)
    \/ \E p \in Procs : ComposeReadPrev(p)
    \/ \E p \in Procs : ComposeWriteScore(p)
    \/ \E p \in Procs : ComposeWriteStreak(p)
    \/ \E p \in Procs : ReconcileReadLast(p)
    \/ \E p \in Procs : ReconcileReadEntry(p)
    \/ \E p \in Procs : ReconcileReadPrev(p)
    \/ \E p \in Procs : ReconcileWriteStreak(p)
    \/ \E p \in Procs : ReconcileWriteScore(p)
    \/ \E p \in Procs : Respond(p)

SpecConcurrent == Init /\ [][NextConcurrent]_vars

\* the requests of the specification with a rest-day toggle next to another
\* handler: handler 1 serves the habit completion route, handler 2 the
\* rest-day route for the first two dates
ToggleRequests(p) ==
    IF p = 1
    THEN {r \in RouteRequests : r.kind = "HabitComplete"}
    ELSE {r \in RouteRequests : r.kind = "RestDayToggle" /\ r.date <= 2}

\* two handlers whose steps interleave: each awaits the composer only
NextToggle ==
    \/ \E p \in Procs : \E r \in ToggleRequests(p) : Begin(p, r)
    \/ \E p \in Procs : Mutate(p)
    \/ \E p \in Procs : ComposeReadRest(p)
    \/ \E p \in Procs : ComposeReadMetrics(p)
    \/ \E p \in Procs : ComposeReadPrev(p)
    \/ \E p \in Procs : ComposeWriteScore(p)
    \/ \E p \in Procs : ComposeWriteStreak(p)
    \/ \E p \in Procs : Respond(p)

SpecToggle == Init /\ [][NextToggle]_vars

\* the requests of the specification with one handler and no failure: the
\* five routes that recalculate, and the task creation that gives the task
\* update route its row
StepRequests ==
    {r \in RouteRequests : \/ r.kind = "HabitComplete"
                            \/ (r.kind = "HabitUncomplete" /\ r.date = 1)
                            \/ (r.kind = "TimeLogCreate" /\ r.date >= 2)
                            \/ (r.kind = "RestDayToggle" /\ r.date = 2)
                            \/ (r.kind = "TaskCreate" /\ r.date = 1)
                            \/ (r.kind = "TaskUpdate" /\ r.date = 0
                                                     /\ r.done # "absent")}

\* one handler at a time serving every mutation route in steps
NextSteps ==
    \/ \E r \in StepRequests : Begin(1, r)
    \/ Mutate(1)
    \/ ComposeReadRest(1)
    \/ ComposeReadMetrics(1)
    \/ ComposeReadPrev(1)
    \/ ComposeWriteScore(1)
    \/ ComposeWriteStreak(1)
    \/ ReconcileReadLast(1)
    \/ ReconcileReadEntry(1)
    \/ ReconcileReadPrev(1)
    \/ ReconcileWriteStreak(1)
    \/ ReconcileWriteScore(1)
    \/ Respond(1)

SpecSteps == Init /\ [][NextSteps]_vars

\* the requests of the specification with malformed dates
DateRequests ==
    {r \in RouteRequests : r.kind \in {"HabitComplete", "TimeLogCreate"}}
      \cup EngineRequests
      \cup {[NoReq EXCEPT !.kind = k, !.date = d] :
               k \in {"Compose", "Reconcile"}, d \in MalformedDates}

\* one handler at a time; the composer and the reconciler are also called
\* with texts that are not calendar dates, and once a row is stored under
\* such a text no further request is served
NextDates ==
    \/ \E r \in DateRequests : DOMAIN scores \subseteq Dates /\ Begin(1, r)
    \/ Mutate(1)
    \/ ComposeReadRest(1)
    \/ ComposeReadMetrics(1)
    \/ ComposeReadPrev(1)
    \/ ComposeWriteScore(1)
    \/ ComposeWriteStreak(1)
    \/ ReconcileReadLast(1)
    \/ ReconcileReadEntry(1)
    \/ ReconcileReadPrev(1)
    \/ ReconcileWriteStreak(1)
    \/ ReconcileWriteScore(1)
    \/ Respond(1)

SpecDates == Init /\ [][NextDates]_vars

\* the steps of a handler in progress: the statement it awaits returns its
\* result and the handler goes on
HandlerStep ==
    \/ Mutate(1)
    \/ ComposeReadRest(1)
    \/ ComposeReadMetrics(1)
    \/ ComposeReadPrev(1)
    \/ ComposeWriteScore(1)
    \/ ComposeWriteStreak(1)
    \/ ReconcileReadLast(1)
    \/ ReconcileReadEntry(1)
    \/ ReconcileReadPrev(1)
    \/ ReconcileWriteStreak(1)
    \/ ReconcileWriteScore(1)
    \/ Respond(1)

\* one handler at a time, with the requests of SpecDates and with storage
\* statements that may fail; after a failure no further request is served
NextLive ==
    \/ \E r \in DateRequests :
          /\ DOMAIN scores \subseteq Dates
          /\ procs[1].failedAt = "none"
          /\ Begin(1, r)
    \/ HandlerStep
    \/ Fail(1)

\* every storage statement a handler awaits returns: a handler that can go
\* on does go on, unless the statement is rejected
SpecLive == Init /\ [][NextLive]_vars /\ WF_vars(HandlerStep)

\* the Tasks tables, TimeLogs sums and HabitCompletions tables the metric
\* calculators are applied to
MetricTaskTables ==
    UNION {[1..n -> {[target_date |-> MetricTaskDate, is_assigned |-> a, is_done |-> dn] :
                        a \in BOOLEAN, dn \in BOOLEAN}] : n \in 0..MaxMetricTasks}

MetricTimeLogs ==
    {tl \in [Dates -> [productive : {0, 900}, distracting : {0, MetricDistracting}]] :
        \A d \in Dates : d > MetricLogDays => tl[d] = EmptyDb.timelogs[d]}

MetricCompletions ==
    UNION {[S -> HabitWeights] : S \in SUBSET Dates}

\* a database whose source tables hold rows and whose scores are not
\* computed yet
InitMetrics ==
    /\ tasks \in MetricTaskTables
    /\ timelogs \in MetricTimeLogs
    /\ completions \in MetricCompletions
    /\ scores = EmptyDb.scores
    /\ streaks = EmptyDb.streaks
    /\ lastOp = Op("Init", 0, 0, NoRet, 0, 0)
    /\ frontier = 0
    /\ currentWeight = EmptyDb.currentWeight
    /\ procs = [p \in Procs |-> IdleProc]
    /\ snapshot = EmptyDb

\* the composer applied to the dates of such a database
NextMetrics ==
    \E d \in Dates : ComposeCall(d)

SpecMetrics == InitMetrics /\ [][NextMetrics]_vars

\* =============================================================== claims
\* the base score of a stored DailyScores row, from its three components
StoredBase(sc, d) == BaseScore(sc[d].habit, sc[d].task, sc[d].time)

\* the streak transition rule: carry on a rest day, else extend at the
\* threshold, else reset
TransitionRule(prev, base, rest) ==
    IF rest THEN prev
    ELSE IF base >= StreakThreshold * 100 THEN prev + 1
    ELSE 0

\* the bonus that goes with a streak value
BonusFor(s) == IF s > 0 THEN Log2Bonus(s) ELSE 0

\* the calendar-latest of a non-empty set of days
CalendarLatest(S) == CHOOSE d \in S : \A e \in S : e <= d

\* the requests whose last step is a run of the composer on their date
ComposingOps ==
    {"Compose", "HabitComplete", "HabitUncomplete", "TimeLogCreate", "RestDayToggle"}

\* C1: whenever no request is in progress, every date that has a score row
\* and a streak row stores the streak the transition rule gives for the
\* previous date's stored streak (0 if none), the row's stored base score
\* and its rest flag.
RecurrenceHolds ==
    \A d \in (DOMAIN scores) \cap (DOMAIN streaks) :
        streaks[d] = TransitionRule(StreakOf(streaks, d - 1), StoredBase(scores, d),
                                    scores[d].rest)

\* C2: if days 1..n hold exactly the rows, each non-rest with a base of at
\* least 60 and streak k on day k, and a task update on day 1 leaves day 1's
\* base below 60, then in the state right after the request day 1 has streak
\* 0 and bonus 0, day k has streak k - 1, and the current streak is n - 1.
CascadePre(n) ==
    /\ DOMAIN scores = 1..n
    /\ DOMAIN streaks = 1..n
    /\ \A k \in 1..n : /\ streaks[k] = k
                       /\ ~scores[k].rest
                       /\ MeetsThreshold(StoredBase(scores, k))

CascadePost(n) ==
    /\ streaks[1] = 0
    /\ scores[1].bonus = 0
    /\ \A k \in 2..n : streaks[k] = k - 1
    /\ getCurrentStreak(streaks) = n - 1

BreakAndCascade ==
    [][\A n \in Dates :
          (/\ CascadePre(n)
           /\ lastOp'.op = "TaskUpdate" /\ lastOp'.status = 200 /\ lastOp'.date = 1
           /\ ~MeetsThreshold(StoredBase(scores', 1)))
          => CascadePost(n)']_vars

BreakAndCascadeReached ==
    /\ lastOp.op = "TaskUpdate" /\ lastOp.status = 200 /\ lastOp.date = 1
    /\ DOMAIN scores = Dates /\ DOMAIN streaks = Dates
    /\ ~MeetsThreshold(StoredBase(scores, 1))
    /\ \A k \in 2..MaxDate : MeetsThreshold(StoredBase(scores, k)) /\ streaks[k] = k - 1
    /\ streaks[1] = 0
    /\ lastOp.streakWrites = MaxDate
    /\ lastOp.scoreWrites = 2

\* C3: for every stored row and every previous-day streak, the reconciler's
\* pass over the row stores the streak, the bonus and the total that the
\* composer's streak step gives for the same previous streak, base and rest
\* flag.
ReconcilerMatchesComposer ==
    \A d \in DOMAIN scores : \A prev \in 0..MaxDate :
        LET base == StoredBase(scores, d)
            c == ComposerStreakStep(prev, base, scores[d].rest)
            r == ReconcileDay(scores, Upsert(streaks, PrevDate(d), prev), d)
        IN /\ r.streaks[d] = c.streak
           /\ r.scores[d].bonus = c.bonus
           /\ r.scores[d].total = base + c.bonus

ReconcilerMatchesComposerReached ==
    /\ lastOp.op = "Reconcile"
    /\ lastOp.scoreWrites >= 1
    /\ \E d, e \in DOMAIN scores :
          /\ d >= lastOp.date /\ e >= lastOp.date
          /\ scores[d].rest /\ streaks[d] >= 1
          /\ ~scores[e].rest /\ StoredBase(scores, e) = StreakThreshold * 100
          /\ streaks[e] >= 2

\* C4: right after a run of the composer on a date, a second run on the same
\* date leaves both tables as they are and returns the same record.
ComposeTwiceSame ==
    lastOp.op \in ComposingOps =>
        LET c == recalculateDailyScore(tasks, completions, timelogs, scores, streaks,
                                       lastOp.date)
        IN /\ c.scores = scores
           /\ c.streaks = streaks
           /\ RetOf(c.ret) = lastOp.ret

ComposeTwiceSameReached ==
    /\ lastOp.op = "Compose"
    /\ lastOp.ret.total > StreakThreshold * 100
    /\ StreakOf(streaks, lastOp.date) >= 2
    /\ StreakOf(streaks, PrevDate(lastOp.date)) >= 1

\* C5 (as stated): right after a run of the reconciler from a start date, a
\* second run from the same start date issues no write statement at all.
ReconcileTwiceNoWrites ==
    lastOp.op = "Reconcile" =>
        LET r == recalculateStreaksForward(tasks, completions, timelogs, scores,
                                           streaks, lastOp.date)
        IN r.streakWrites = 0 /\ r.scoreWrites = 0

\* C5 (amended): right after a run of the reconciler from a start date, a
\* second run from the same start date changes no stored value and issues no
\* DailyScores update; it still upserts the StreakData row of every date it
\* processes, with the value the row already holds.
ReconcileTwiceNoChange ==
    lastOp.op = "Reconcile" =>
        LET r == recalculateStreaksForward(tasks, completions, timelogs, scores,
                                           streaks, lastOp.date)
        IN /\ r.scores = scores
           /\ r.streaks = streaks
           /\ r.scoreWrites = 0
           /\ r.streakWrites = Cardinality({d \in DOMAIN scores : d >= lastOp.date})

ReconcileTwiceReached ==
    /\ lastOp.op = "Reconcile"
    /\ lastOp.scoreWrites >= 1
    /\ lastOp.streakWrites >= 2

\* C6: a rest-day date that the composer or the reconciler has just processed
\* stores the previous date's stored streak (0 if none), and its bonus is the
\* bonus of that value, 0 when the value is 0.
RestDayCarried(d) ==
    /\ d \in DOMAIN streaks
    /\ streaks[d] = StreakOf(streaks, d - 1)
    /\ scores[d].bonus = BonusFor(StreakOf(streaks, d - 1))

RestDayCarryOver ==
    /\ (lastOp.op \in ComposingOps /\ scores[lastOp.date].rest)
           => RestDayCarried(lastOp.date)
    /\ lastOp.op = "Reconcile" =>
           \A d \in DOMAIN scores :
               (d >= lastOp.date /\ scores[d].rest) => RestDayCarried(d)

RestDayCarryOverReached ==
    /\ lastOp.op = "RestDayToggle"
    /\ scores[lastOp.date].rest
    /\ streaks[lastOp.date] >= 2
    /\ StoredBase(scores, lastOp.date) < StreakThreshold * 100

\* C7: every stored score row has a total equal to the weighted sum of its
\* three stored components plus its stored bonus.
TotalIsBasePlusBonus ==
    \A d \in DOMAIN scores : scores[d].total = StoredBase(scores, d) + scores[d].bonus

TotalIsBasePlusBonusReached ==
    /\ lastOp.op = "Reconcile"
    /\ lastOp.scoreWrites >= 1
    /\ lastOp.streakWrites > lastOp.scoreWrites
    /\ \E d, e \in DOMAIN scores :
          /\ scores[d].rest /\ scores[d].bonus > 0
          /\ scores[e] = DefaultScoreRow /\ e \notin DOMAIN streaks

\* C8: starting from no history, when the requests so far came in date order
\* and the stored rows are exactly days 1..n, each non-rest with a base of at
\* least 60, day k stores streak k and the current streak is n.
StreakBuildUp ==
    \A n \in Dates :
        (/\ frontier >= 0
         /\ DOMAIN scores = 1..n
         /\ \A k \in 1..n : ~scores[k].rest /\ MeetsThreshold(StoredBase(scores, k)))
        => /\ DOMAIN streaks = 1..n
           /\ \A k \in 1..n : streaks[k] = k
           /\ getCurrentStreak(streaks) = n

StreakBuildUpReached ==
    /\ frontier = MaxDate
    /\ DOMAIN scores = Dates
    /\ \A k \in Dates : MeetsThreshold(StoredBase(scores, k)) /\ streaks[k] = k
    /\ \E i \in DOMAIN tasks : tasks[i].is_done

\* C9: the streak query answers the stored streak of the calendar-latest
\* date that has a streak row, and 0 when there is no streak row.
CurrentStreakIsLatest ==
    lastOp.op = "GetStreak" =>
        lastOp.ret.streak = IF DOMAIN streaks = {} THEN 0
                            ELSE streaks[CalendarLatest(DOMAIN streaks)]

CurrentStreakIsLatestReached ==
    /\ lastOp.op = "GetStreak"
    /\ {2, 3} \subseteq DOMAIN streaks
    /\ lastOp.ret.streak = streaks[CalendarLatest(DOMAIN streaks)]
    /\ \A e \in DOMAIN streaks \ {CalendarLatest(DOMAIN streaks)} :
          streaks[e] # lastOp.ret.streak

RestToggleReconciled ==
    lastOp.op = "RestDayToggle" =>
        LET r == recalculateStreaksForward(tasks, completions, timelogs, scores,
                                           streaks, NextDate(lastOp.date))
        IN r.scores = scores /\ \A d \in DOMAIN streaks : r.streaks[d] = streaks[d]

\* C17: right after a task create, update or delete request that succeeded
\* for a task with target date D, D has a score row whose task component is
\* 100 times the task ratio of D's current tasks.
TaskRoutesCompose ==
    (lastOp.op \in {"TaskCreate", "TaskUpdate", "TaskDelete"}
        /\ lastOp.status \in {200, 201}) =>
        /\ lastOp.date \in DOMAIN scores
        /\ scores[lastOp.date].task = calculateTaskScore(tasks, lastOp.date)

WeightEditDecoupled ==
    [][/\ lastOp'.op = "HabitEdit" =>
             completions' = completions /\ scores' = scores
       /\ (lastOp'.op = "Compose" /\ lastOp'.date \in DOMAIN completions
              /\ lastOp'.date \in DOMAIN scores) =>
             /\ scores'[lastOp'.date].habit = scores[lastOp'.date].habit
             /\ scores'[lastOp'.date].habit = completions[lastOp'.date]]_vars

WeightEditDecoupledReached ==
    /\ lastOp.op = "Compose"
    /\ lastOp.date \in DOMAIN completions
    /\ completions[lastOp.date] # currentWeight
    /\ lastOp.ret.habit = completions[lastOp.date]
    /\ \E d \in DOMAIN completions : completions[d] = currentWeight

\* ------------------------------------------------------------------ C11
\* the row a table holds for a date, as a sequence of at most one row
RowAt(tbl, d) == IF d \in DOMAIN tbl THEN <<tbl[d]>> ELSE <<>>

\* the positions inside the composer, and inside the reconciler
ComposerSteps == {"c1", "c2", "c3", "c4", "c5"}

ReconcilerSteps == {"r0", "r1", "r2", "r3", "r4"}

\* C11: when the composer fails at any of its storage statements, neither
\* the DailyScores row nor the StreakData row of its date has changed since
\* the request arrived.
ComposerWritesAtomic ==
    \A p \in Procs :
        procs[p].failedAt \in ComposerSteps =>
            /\ RowAt(scores, procs[p].date) = RowAt(snapshot.scores, procs[p].date)
            /\ RowAt(streaks, procs[p].date) = RowAt(snapshot.streaks, procs[p].date)

\* ------------------------------------------------------------------ C12
\* the positions inside the reconciler's loop
LoopSteps == {"r1", "r2", "r3", "r4"}

\* the tables a request leaves when every statement of it succeeds
Served(proc) == Serve(proc.req, snapshot)

\* C12: when a storage statement fails while the reconciler processes date d,
\* the reconciler stops and throws (a direct call fails; the task update
\* route has left the recalculation), every date before d holds what the
\* complete run would have written for it, and every date after d holds
\* what it held when the request arrived.
ReconcilerFailureStopsLoop ==
    \A p \in Procs :
        procs[p].failedAt \in LoopSteps =>
            /\ procs[p].pc \in {"respond", "done"}
            /\ procs[p].req.kind = "Reconcile" => procs[p].status = 500
            /\ \A e \in Dates :
                   /\ e < procs[p].cur =>
                          /\ RowAt(scores, e) = RowAt(Served(procs[p]).scores, e)
                          /\ RowAt(streaks, e) = RowAt(Served(procs[p]).streaks, e)
                   /\ e > procs[p].cur =>
                          /\ RowAt(scores, e) = RowAt(snapshot.scores, e)
                          /\ RowAt(streaks, e) = RowAt(snapshot.streaks, e)

\* a direct call failed at a date after it had rewritten an earlier date's streak
ReconcilerFailedMidwayReached ==
    \E p \in Procs :
        /\ procs[p].failedAt \in LoopSteps
        /\ procs[p].req.kind = "Reconcile"
        /\ \E e \in Dates : /\ e < procs[p].cur
                             /\ RowAt(streaks, e) # RowAt(snapshot.streaks, e)

\* ------------------------------------------------------------------ C13
\* a handler is inside a recalculation from the first read of the composer
\* or of the reconciler to its last write
InsideRecalculation(proc) == proc.pc \in {"c2", "c3", "c4", "c5", "r1", "r2", "r3", "r4"}

\* the dates the recalculation a handler is inside reads or writes
TouchedDates(proc) ==
    IF proc.pc \in ComposerSteps THEN {PrevDate(proc.date), proc.date}
    ELSE {d \in Dates : PrevDate(proc.cur) <= d /\ d <= proc.last}

\* C13: no two handlers are inside recalculations that touch overlapping or
\* adjacent dates at the same time.
RecalculationsNeverInterleave ==
    \A p, q \in Procs :
        (/\ p # q
         /\ InsideRecalculation(procs[p])
         /\ InsideRecalculation(procs[q]))
        => \A a \in TouchedDates(procs[p]), b \in TouchedDates(procs[q]) :
               a + 1 < b \/ b + 1 < a

\* ------------------------------------------------------------------ C14
\* every handler of the batch has finished
BatchDone ==
    /\ \E p \in Procs : procs[p].pc = "done"
    /\ \A p \in Procs : procs[p].pc \in {"idle", "done"}

\* the score and streak tables some serial order of the batch's requests leaves
SerialOutcomes ==
    LET a == procs[1].req
        b == procs[2].req
    IN {[scores |-> db.scores, streaks |-> db.streaks] :
            db \in {Serve(b, Serve(a, snapshot)), Serve(a, Serve(b, snapshot))}}

\* C14: when the requests of a batch have all been answered, the DailyScores
\* and StreakData tables are those one of the serial orders of the requests
\* leaves.
ConcurrentEqualsSerial ==
    BatchDone => [scores |-> scores, streaks |-> streaks] \in SerialOutcomes

MalformedDateRejected ==
    \A p \in Procs :
        (/\ procs[p].req.kind \in {"Compose", "Reconcile"}
         /\ procs[p].req.date \in MalformedDates)
        => /\ procs[p].pc \in {FirstPc(procs[p].req), "respond", "done"}
           /\ procs[p].pc \in {"respond", "done"} => procs[p].status = 500
           /\ scores = snapshot.scores
           /\ streaks = snapshot.streaks

\* ------------------------------------------------------------------ C21
\* what the threshold gives a non-rest date: the streak after a base score
\* of exactly 60 is the previous day's stored streak plus one, after a base
\* score below 60 it is 0
BoundaryAt(d) ==
    (d \in DOMAIN scores /\ d \in DOMAIN streaks /\ ~scores[d].rest) =>
        /\ StoredBase(scores, d) = StreakThreshold * 100 =>
               streaks[d] = StreakOf(streaks, PrevDate(d)) + 1
        /\ StoredBase(scores, d) < StreakThreshold * 100 => streaks[d] = 0

\* C21: right after a run of the composer on a date, and right after a run
\* of the reconciler for every date from its start date on, a non-rest date
\* with a base score of exactly 60 stores the previous day's streak plus one
\* and a non-rest date with a base score below 60 stores streak 0.
ThresholdBoundary ==
    /\ lastOp.op \in ComposingOps => BoundaryAt(lastOp.date)
    /\ lastOp.op = "Reconcile" =>
           \A d \in DOMAIN scores : d >= lastOp.date => BoundaryAt(d)

\* the reconciler has passed a date with base exactly 60 that continues a
\* streak and a date below 60 that ends one
ThresholdBoundaryReached ==
    /\ lastOp.op = "Reconcile"
    /\ \E d, e \in DOMAIN scores :
          /\ d >= lastOp.date /\ e >= lastOp.date
          /\ ~scores[d].rest /\ StoredBase(scores, d) = StreakThreshold * 100
          /\ streaks[d] = StreakOf(streaks, PrevDate(d)) + 1 /\ streaks[d] >= 2
          /\ ~scores[e].rest /\ StoredBase(scores, e) < StreakThreshold * 100
          /\ StreakOf(streaks, PrevDate(e)) >= 1 /\ streaks[e] = 0

\* ------------------------------------------------------------------ C22
\* the numbers of done and of assigned tasks whose target date is d
CompletedOn(d) == Cardinality({i \in DOMAIN tasks : tasks[i].target_date = d
                                                     /\ tasks[i].is_done})

AssignedOn(d) == Cardinality({i \in DOMAIN tasks : tasks[i].target_date = d
                                                    /\ tasks[i].is_assigned})

NegativeTimeScore ==
    \A d \in DOMAIN scores :
        /\ timelogs[d].distracting > timelogs[d].productive => scores[d].time < 0
        /\ (/\ scores[d].habit = 100 /\ scores[d].task = 100
            /\ scores[d].time < 0 - 300 /\ ~scores[d].rest) =>
               /\ StoredBase(scores, d) < StreakThreshold * 100
               /\ streaks[d] = 0

\* a date with a completed habit and its one assigned task done, whose
\* distracting time pulls the base below 60, ends a streak
NegativeTimeScoreReached ==
    \E d \in DOMAIN scores :
        /\ timelogs[d].distracting > timelogs[d].productive
        /\ scores[d].habit = 100 /\ scores[d].task = 100
        /\ scores[d].time < 0 - 300
        /\ StreakOf(streaks, PrevDate(d)) >= 1
        /\ streaks[d] = 0

\* ------------------------------------------------------------------ C24
\* handler p executes an upsert into StreakData in this step, for date d
WritesStreak(p, d) ==
    /\ procs[p].pc \in {"c5", "r3"}
    /\ procs'[p].pc # procs[p].pc
    /\ d = IF procs[p].pc = "c5" THEN procs[p].date ELSE procs[p].cur

\* C24: every stored streak is a natural number, and the value an upsert
\* into StreakData writes for a date is at most the value stored for the
\* previous day at that moment (0 if none) plus 1.
StreakWithinBound ==
    /\ [](\A d \in DOMAIN streaks : streaks[d] \in Nat)
    /\ [][\A p \in Procs : \A d \in Dates :
              WritesStreak(p, d) =>
                  /\ d \in DOMAIN streaks'
                  /\ streaks'[d] <= StreakOf(streaks, PrevDate(d)) + 1]_vars

\* ------------------------------------------------------------------ C25
\* the dates from the reconciler's start date to the last date with a score
ReconciledRange ==
    IF DOMAIN scores = {} THEN {}
    ELSE {d \in Dates : lastOp.date <= d /\ d <= CalendarLatest(DOMAIN scores)}

\* C25: right after a run of the reconciler over a range of dates that all
\* have a score row, every date of the range stores the streak the transition
\* rule gives for the previous date's final streak (0 if none) and the date's
\* stored components and rest flag, the bonus of that streak, and the stored
\* base plus that bonus as total.
ReconcilePostcondition ==
    (lastOp.op = "Reconcile" /\ ReconciledRange \subseteq DOMAIN scores) =>
        \A d \in ReconciledRange :
            /\ d \in DOMAIN streaks
            /\ streaks[d] = TransitionRule(StreakOf(streaks, PrevDate(d)),
                                           StoredBase(scores, d), scores[d].rest)
            /\ scores[d].bonus = BonusFor(streaks[d])
            /\ scores[d].total = StoredBase(scores, d) + scores[d].bonus

\* the reconciler rewrote bonus and total over a range of at least two dates
\* that holds a rest day inside a streak
ReconcilePostconditionReached ==
    /\ lastOp.op = "Reconcile"
    /\ lastOp.scoreWrites >= 1
    /\ ReconciledRange \subseteq DOMAIN scores
    /\ Cardinality(ReconciledRange) >= 2
    /\ \E d \in ReconciledRange : scores[d].rest /\ streaks[d] >= 1

\* ------------------------------------------------------------------ C26
\* the order of the positions inside one pass of the loop
LoopRank(pc) ==
    CASE pc = "r1" -> 1 [] pc = "r2" -> 2 [] pc = "r3" -> 3 [] pc = "r4" -> 4
      [] OTHER -> 0

\* date d holds what the loop writes for it, given the rows it reads
ReconciledIn(sc, st, d) ==
    d \in DOMAIN sc =>
        /\ d \in DOMAIN st
        /\ st[d] = TransitionRule(StreakOf(st, PrevDate(d)), StoredBase(sc, d),
                                  sc[d].rest)
        /\ sc[d].bonus = BonusFor(st[d])

\* C26: while the reconciler is in its loop, the current date lies between
\* the start date and the last date and every earlier date of the range
\* already holds its reconciled streak; every step of the loop stays on the
\* current date at a later position, or moves on to the next date after the
\* current one is written, or leaves after the last date.
ReconcilerVisitsInOrder ==
    /\ [](\A p \in Procs :
            (procs[p].req.kind = "Reconcile" /\ procs[p].pc \in LoopSteps) =>
                /\ procs[p].req.date <= procs[p].cur
                /\ procs[p].cur <= procs[p].last
                /\ \A e \in Dates :
                       (procs[p].req.date <= e /\ e < procs[p].cur) =>
                           ReconciledIn(scores, streaks, e))
    /\ [][\A p \in Procs :
              (/\ procs[p].req.kind = "Reconcile"
               /\ procs[p].pc \in LoopSteps
               /\ procs'[p] # procs[p]) =>
                  \/ /\ procs'[p].cur = procs[p].cur
                     /\ LoopRank(procs'[p].pc) > LoopRank(procs[p].pc)
                  \/ /\ procs'[p].cur = NextDate(procs[p].cur)
                     /\ procs'[p].cur <= procs[p].last
                     /\ procs'[p].pc = "r1"
                     /\ ReconciledIn(scores', streaks', procs[p].cur)
                  \/ /\ procs'[p].pc = "respond"
                     /\ procs'[p].status = 200
                     /\ procs[p].cur = procs[p].last
                     /\ ReconciledIn(scores', streaks', procs[p].cur)]_vars

\* a call from day 1 has run to the last of at least three dates, past a
\* date whose score row it left as it was, and rewrote the last date's streak
ReconcilerVisitsInOrderReached ==
    \E p \in Procs :
        /\ procs[p].req.kind = "Reconcile"
        /\ procs[p].pc = "done"
        /\ procs[p].req.date = 1
        /\ procs[p].last >= 3
        /\ procs[p].cur = procs[p].last
        /\ \E e \in DOMAIN scores :
               /\ e < procs[p].last
               /\ RowAt(scores, e) = RowAt(snapshot.scores, e)
               /\ RowAt(streaks, e) = RowAt(snapshot.streaks, e)
        /\ RowAt(streaks, procs[p].last) # RowAt(snapshot.streaks, procs[p].last)

\* ------------------------------------------------------------------ C27
\* the dates that have a score row or a streak row
History == (DOMAIN scores) \cup (DOMAIN streaks)

\* C27: right after a run of the reconciler, if there is no history or the
\* start date lies after the latest date of the history, the run issued no
\* write statement; otherwise it wrote the streak of every date with a score
\* row from the start date to the latest date of the history.
ReconcilerRange ==
    lastOp.op = "Reconcile" =>
        IF History = {} \/ lastOp.date > CalendarLatest(History)
        THEN lastOp.streakWrites = 0 /\ lastOp.scoreWrites = 0
        ELSE lastOp.streakWrites =
                 Cardinality({d \in DOMAIN scores :
                                 lastOp.date <= d /\ d <= CalendarLatest(History)})

\* the reconciler was started on the day after the latest date of a history
\* whose latest date stores a streak that a pass over it would rewrite
ReconcilerRangeReached ==
    /\ lastOp.op = "Reconcile"
    /\ History # {}
    /\ lastOp.date = CalendarLatest(History) + 1
    /\ lastOp.streakWrites = 0 /\ lastOp.scoreWrites = 0
    /\ ~ReconciledIn(scores, streaks, CalendarLatest(History))

\* ------------------------------------------------------------------ C28
\* C28: the reconciler pass of a task update leaves the three components
\* and the rest flag of every later date that has a score row as they were,
\* and the streak and the total it stores for such a date follow from those
\* stored components.
ReconcilerKeepsMeasures ==
    [][(lastOp'.op = "TaskUpdate" /\ lastOp'.status = 200) =>
          \A d \in DOMAIN scores :
              d > lastOp'.date =>
                  /\ d \in DOMAIN scores'
                  /\ scores'[d].habit = scores[d].habit
                  /\ scores'[d].task = scores[d].task
                  /\ scores'[d].time = scores[d].time
                  /\ scores'[d].rest = scores[d].rest
                  /\ streaks'[d] = TransitionRule(StreakOf(streaks', PrevDate(d)),
                                                  StoredBase(scores, d), scores[d].rest)
                  /\ scores'[d].total = StoredBase(scores, d) + scores'[d].bonus]_vars

\* a task update whose reconciler passed a later date whose stored task
\* component is not the one the Tasks table gives now
ReconcilerKeepsMeasuresReached ==
    /\ lastOp.op = "TaskUpdate" /\ lastOp.status = 200
    /\ lastOp.streakWrites >= 2
    /\ \E d \in DOMAIN scores :
          /\ d > lastOp.date
          /\ scores[d].task # calculateTaskScore(tasks, d)

\* ------------------------------------------------------------------ C29
\* the handler's composer call has executed its upsert into DailyScores
HasComposed(proc) ==
    /\ proc.req.kind \in {"HabitComplete", "HabitUncomplete", "TimeLogCreate",
                           "RestDayToggle", "TaskUpdate"}
    /\ \/ proc.pc = "c5"
       \/ proc.pc \in ReconcilerSteps
       \/ proc.pc \in {"respond", "done"} /\ proc.status # 404

\* the rest-day flag stored for the handler's date when its composer call
\* started: the flag the rest-day route has just set, else the flag stored
\* when the request arrived, false when there was no row
RestFlagAtStart(proc) ==
    IF proc.req.kind = "RestDayToggle" THEN proc.req.flag
    ELSE IF proc.date \in DOMAIN snapshot.scores THEN snapshot.scores[proc.date].rest
    ELSE FALSE

\* C29: once a handler's composer call has written the score row of its
\* date, the row's rest-day flag is the one that was stored for the date
\* when the call started, and false when no row existed.
ComposerKeepsRestFlag ==
    \A p \in Procs :
        HasComposed(procs[p]) =>
            /\ procs[p].date \in DOMAIN scores
            /\ scores[procs[p].date].rest = RestFlagAtStart(procs[p])

\* a habit completion was composed for a date that is marked as a rest day
ComposerKeepsRestFlagReached ==
    \E p \in Procs :
        /\ procs[p].req.kind = "HabitComplete"
        /\ procs[p].pc = "done"
        /\ procs[p].date \in DOMAIN snapshot.scores
        /\ snapshot.scores[procs[p].date].rest
        /\ scores[procs[p].date].rest
        /\ scores[procs[p].date].habit # snapshot.scores[procs[p].date].habit

\* ------------------------------------------------------------------ C30
\* C30: a habit-uncompletion or task-update handler that applied its change
\* is in the reconciler only with the score and streak rows of its date
\* composed and with a loop date after its date, and it answers only after
\* the reconciler was started on the day after its date, with status 200.
UndoHandlersReconcile ==
    \A p \in Procs :
        procs[p].req.kind \in {"HabitUncomplete", "TaskUpdate"} =>
            /\ procs[p].pc \in ReconcilerSteps =>
                   /\ procs[p].cur >= NextDate(procs[p].date)
                   /\ RowAt(ComposeDb(Db, procs[p].date).scores, procs[p].date)
                         = RowAt(scores, procs[p].date)
                   /\ RowAt(ComposeDb(Db, procs[p].date).streaks, procs[p].date)
                         = RowAt(streaks, procs[p].date)
            /\ (procs[p].pc \in {"respond", "done"} /\ procs[p].status # 404) =>
                   /\ procs[p].cur >= NextDate(procs[p].date)
                   /\ procs[p].status = 200

\* ------------------------------------------------------------------ C31
\* C31: when a task update that succeeded moves a task from target date D1
\* to another target date D2, afterwards both D1 and D2 have a score row
\* whose task component is 100 times the task ratio of the date's current
\* tasks, and the tables are as a run of the reconciler from the day after
\* the earlier of D1 and D2 leaves them.
TaskMoveHandlesBothDates ==
    [][\A id \in DOMAIN tasks :
          (/\ lastOp'.op = "TaskUpdate"
           /\ lastOp'.status = 200
           /\ id \in DOMAIN tasks'
           /\ tasks'[id].target_date # tasks[id].target_date) =>
              LET D1 == tasks[id].target_date
                  D2 == tasks'[id].target_date
                  r == recalculateStreaksForward(tasks', completions', timelogs',
                           scores', streaks',
                           NextDate(IF D1 < D2 THEN D1 ELSE D2))
              IN /\ \A d \in {D1, D2} :
                       /\ d \in DOMAIN scores'
                       /\ scores'[d].task = calculateTaskScore(tasks', d)
                 /\ r.scores = scores'
                 /\ \A d \in DOMAIN streaks' : r.streaks[d] = streaks'[d]]_vars

\* ------------------------------------------------------------------ C32
\* every date after D that has a score row and a streak row stores the
\* streak the transition rule gives for its predecessor's stored streak,
\* and the bonus that goes with that streak
LaterDatesFollowRule(sc, st, D) ==
    \A d \in (DOMAIN sc) \cap (DOMAIN st) :
        d > D =>
            /\ st[d] = TransitionRule(StreakOf(st, PrevDate(d)), StoredBase(sc, d),
                                      sc[d].rest)
            /\ sc[d].bonus = BonusFor(st[d])

\* C32: a habit completion for a date D leaves the later dates as they
\* should be: if before the request every later date's stored streak and
\* bonus followed the transition rule from its predecessor's stored streak,
\* they still do after the request.
HabitCompleteKeepsLaterDates ==
    [][(lastOp'.op = "HabitComplete"
          /\ LaterDatesFollowRule(scores, streaks, lastOp'.date)) =>
              LaterDatesFollowRule(scores', streaks', lastOp'.date)]_vars

\* ------------------------------------------------------------------ C33
\* the score table holds a row for every date from its first to its last
GapFree == \A d \in Dates :
    (\E a \in DOMAIN scores : a <= d) /\ (\E b \in DOMAIN scores : d <= b)
        => d \in DOMAIN scores

\* the first stored date
FirstStored == CHOOSE d \in DOMAIN scores : \A e \in DOMAIN scores : d <= e

\* a non-rest day whose stored base is below the threshold
Breaks(d) == ~scores[d].rest /\ ~MeetsThreshold(StoredBase(scores, d))

\* a non-rest day whose stored base reaches the threshold
Counts(d) == ~scores[d].rest /\ MeetsThreshold(StoredBase(scores, d))

\* the first date of the run that ends at d: the day after the latest
\* breaking day up to d, or the first stored date
RunStart(d) ==
    LET B == {e \in FirstStored..d : Breaks(e)}
    IN IF B = {} THEN FirstStored
       ELSE NextDate(CHOOSE e \in B : \A x \in B : x <= e)

\* C33: right after a run of the reconciler from the first stored date over
\* a score table without gaps, every date d stores as streak the number of
\* non-rest days with a base of at least 60 in the run of dates that ends at
\* d and starts just after the latest non-rest day with a base below 60, or
\* at the first stored date.
StreakClosedForm ==
    (lastOp.op = "Reconcile" /\ DOMAIN scores # {} /\ GapFree
        /\ lastOp.date = FirstStored) =>
        \A d \in DOMAIN scores :
            /\ d \in DOMAIN streaks
            /\ streaks[d] = Cardinality({e \in RunStart(d)..d : Counts(e)})

\* the reconciler ran from the first of three stored dates, rewrote a bonus,
\* and left a streak of 2 on a date whose run holds a rest day
StreakClosedFormReached ==
    /\ lastOp.op = "Reconcile"
    /\ lastOp.scoreWrites >= 1
    /\ DOMAIN scores # {}
    /\ GapFree
    /\ lastOp.date = FirstStored
    /\ \E d \in DOMAIN scores :
          /\ streaks[d] = 2
          /\ \E e \in RunStart(d)..d : scores[e].rest

\* ------------------------------------------------------------------ C34
\* C34: a handler that is inside the reconciler eventually leaves it, by
\* returning or by failing; while it is inside, the stop date stays what it
\* was at the start, and every step that starts an iteration, the ones after
\* a date without a score row included, raises the loop date.
ReconcilerTerminates ==
    /\ (procs[1].pc \in ReconcilerSteps) ~> (procs[1].pc \notin ReconcilerSteps)
    /\ [][(procs[1].pc \in LoopSteps /\ procs'[1].pc \in LoopSteps) =>
             /\ procs'[1].last = procs[1].last
             /\ procs'[1].cur >= procs[1].cur
             /\ procs'[1].pc = "r1" => procs'[1].cur > procs[1].cur]_vars

\* a direct call of the reconciler returned after its loop had passed a date
\* without a score row and reached the stop date
ReconcilerTerminatesReached ==
    /\ procs[1].req.kind = "Reconcile"
    /\ procs[1].pc = "done"
    /\ procs[1].status = 200
    /\ procs[1].failedAt = "none"
    /\ procs[1].last \in Dates
    /\ procs[1].cur = procs[1].last
    /\ \E d \in Dates : /\ procs[1].date <= d
                        /\ d < procs[1].last
                        /\ d \notin DOMAIN scores

\* ------------------------------------------------------------------ C35
\* C35: whenever no handler is in progress, every date that has a score row
\* and a streak row stores bonus 0 if its streak is 0 and otherwise the
\* rounded logarithm of its streak; rest days and the tables a failed call
\* leaves are included.
BonusMatchesStreak ==
    Quiescent =>
        \A d \in (DOMAIN scores) \cap (DOMAIN streaks) :
            scores[d].bonus = IF streaks[d] = 0 THEN 0 ELSE Log2Bonus(streaks[d])

\* ------------------------------------------------------------------ C36
\* C36: in every state the composer, the reconciler, the rest-day toggle and
\* the notes save can produce, every date that has a streak row has a score
\* row, and the last date of the score table, which the reconciler takes as
\* its stop date, is the last date of the score and streak history.
StreakRowsHaveScoreRows ==
    /\ DOMAIN streaks \subseteq DOMAIN scores
    /\ History # {} =>
           /\ DOMAIN scores # {}
           /\ MaxDateText(DOMAIN scores) = CalendarLatest(History)

\* the reconciler has written streak rows while a date before its start
\* holds a score row from a notes save and no streak row
StreakRowsHaveScoreRowsReached ==
    /\ lastOp.op = "Reconcile"
    /\ lastOp.streakWrites >= 1
    /\ \E d \in DOMAIN scores : d < lastOp.date /\ d \notin DOMAIN streaks
    /\ \E d \in DOMAIN streaks : d >= lastOp.date

\* ------------------------------------------------------------------ C37
\* C37: when a rest-day toggle for a date and another request whose composer
\* ran for the same date at the same time have both completed, the score row
\* of the date holds the rest flag the toggle set.
RestFlagNeverLost ==
    \A p \in Procs, q \in Procs :
        (/\ procs[p].req.kind = "RestDayToggle"
         /\ procs[p].pc = "done"
         /\ procs[q].req.kind = "HabitComplete"
         /\ procs[q].pc = "done"
         /\ procs[q].date = procs[p].date) =>
            /\ procs[p].date \in DOMAIN scores
            /\ scores[procs[p].date].rest = procs[p].req.flag

\* ------------------------------------------------------------------ C38
\* C38: a read of the daily score of any date, stored or not, leaves the
\* current streak what it was: the value GET /api/streak returns is the same
\* before and after the read.
ReadKeepsCurrentStreak ==
    [][lastOp'.op = "GetDailyScore" =>
          getCurrentStreak(streaks') = getCurrentStreak(streaks)]_vars

\* ------------------------------------------------------------------ C39
\* the dates whose score row or streak row a step changes
WrittenDates ==
    {d \in (DOMAIN scores) \cup (DOMAIN scores') \cup (DOMAIN streaks)
              \cup (DOMAIN streaks') :
        \/ RowAt(scores', d) # RowAt(scores, d)
        \/ RowAt(streaks', d) # RowAt(streaks, d)}

\* the date the reconciler of a handler was started with
StartOf(proc) ==
    IF proc.req.kind = "Reconcile" THEN proc.req.date ELSE NextDate(proc.date)

\* C39: a step of the composer changes no score row and no streak row of a
\* date other than its own, and a step of the reconciler's loop changes no
\* row of a date before its start date or after the stop date it took at
\* its start; the reconciler's first step changes no row at all.
WriteFootprint ==
    [][\A d \in WrittenDates :
          /\ procs[1].pc \in ComposerSteps => d = procs[1].date
          /\ procs[1].pc \in LoopSteps =>
                 /\ StartOf(procs[1]) <= d
                 /\ d <= procs[1].last
                 /\ procs'[1].pc \in LoopSteps => procs'[1].last = procs[1].last
          /\ procs[1].pc # "r0"]_vars

\* a direct call of the reconciler from the second date or later has
\* returned with a changed streak row inside its range, while an earlier
\* date and the date before its start hold rows it left alone
WriteFootprintReached ==
    /\ procs[1].req.kind = "Reconcile"
    /\ procs[1].pc = "done"
    /\ procs[1].status = 200
    /\ procs[1].date >= 2
    /\ PrevDate(procs[1].date) \in DOMAIN streaks
    /\ \E d \in DOMAIN streaks :
          /\ d >= procs[1].date
          /\ d <= procs[1].last
          /\ RowAt(snapshot.streaks, d) # RowAt(streaks, d)

====
